---- MODULE Spec2Model ----
(***************************************************************************)
(* Schema migration engine of the MySQL store (store/mysql/migrator.go):   *)
(* Migrate, nonProdMigrate, prodMigrate, applyMigrationForMinorVersion,    *)
(* seed and getMinorVersionList, run against a database whose statement    *)
(* executions, history reads and history writes may fail.                  *)
(***************************************************************************)
EXTENDS Integers, Sequences, FiniteSets, TLC

VARIABLES
    mode,       \* d.profile.Mode: "prod", "dev" or "demo"
    version,    \* version.GetCurrentVersion(d.profile.Mode), <<major, minor, patch>>
    history,    \* rows of migration_history, in insertion order
    recInfo,    \* for each row of history: how and after what it was written
    schema,     \* statements whose effect is applied to the database
    seedRuns,   \* number of seed statements executed on this database
    pc,         \* position of the Migrate call: idle, run, done, failed
    path,       \* branch the call took: none, dev, bootstrap, noop, incremental
    todo,       \* operations the call still has to perform, in order
    log,        \* statements executed successfully by the call, in order
    written,    \* versions upserted by the call, in order
    unitLog,    \* statements of the current unit executed by the call
    unitStart,  \* schema and history when the current unit began
    startHist,  \* history when the call began
    startSchema,\* schema when the call began
    failure,    \* the operation that made the call return an error
    calls,      \* Migrate calls returned so far
    prev,       \* summary of the previous Migrate call
    listed,     \* FindMigrationHistoryList calls made by the Migrate call
    script,     \* splitting: the script being split
    segs,       \* splitting: segments still to visit (strings.Split result)
    executed,   \* splitting: statements handed to ExecContext, in order
    db,         \* vacuum: committed rows of the tables
    txdb,       \* vacuum: rows as seen inside the transaction
    db0,        \* vacuum: committed rows when the Vacuum call began
    tx,         \* vacuum: the transaction: none, open, committed, rolledback
    vpc,        \* vacuum: position of the Vacuum call: idle, run, done, failed
    vtodo,      \* vacuum: steps the call still has to perform
    vfail,      \* vacuum: the step that made the call return an error
    reclaim,    \* vacuum: state of the transaction when VACUUM was executed
    vcalls,     \* vacuum: Vacuum calls returned so far
    vprev,      \* vacuum: result of the previous Vacuum call
    bpc,        \* backup: position of the BackupTo call
    held,       \* backup: connections taken from the pool and not closed
    sess,       \* backup: the session of the call: none, open, finished
    unfinished, \* backup: sessions opened and never finished
    total,      \* backup: pages of the source database
    copied,     \* backup: pages copied to the destination file
    more,       \* backup: the last Step reported pages left to copy
    bfail,      \* backup: the step that made the call return an error
    bres,       \* backup: what the call returned: none, ok, err
    bcalls      \* backup: BackupTo calls returned so far

vars == <<mode, version, history, recInfo, schema, seedRuns, pc, path, todo,
          log, written, unitLog, unitStart, startHist, startSchema, failure,
          calls, prev, listed, script, segs, executed,
          db, txdb, db0, tx, vpc, vtodo, vfail, reclaim, vcalls, vprev,
          bpc, held, sess, unfinished, total, copied, more, bfail, bres, bcalls>>

migVars == <<mode, version, history, recInfo, schema, seedRuns, pc, path, todo,
             log, written, unitLog, unitStart, startHist, startSchema, failure,
             calls, prev, listed>>

splitVars == <<script, segs, executed>>

vacVars == <<db, txdb, db0, tx, vpc, vtodo, vfail, reclaim, vcalls, vprev>>

bakVars == <<bpc, held, sess, unfinished, total, copied, more, bfail, bres, bcalls>>

\* what a step of a Migrate call leaves alone
otherVars == <<listed, splitVars, vacVars, bakVars>>

----------------------------------------------------------------------------
(* Bounds of the model *)

MaxCalls == 3
MaxLen == 4

----------------------------------------------------------------------------
(* Sequences and strings *)

Range(s) == {s[i] : i \in 1..Len(s)}

Min(a, b) == IF a < b THEN a ELSE b

\* Go string comparison (<) on strings given as sequences of byte values.
StringLess(a, b) ==
    \E i \in 1..(Min(Len(a), Len(b)) + 1) :
        /\ \A j \in 1..(i - 1) : a[j] = b[j]
        /\ \/ i > Len(a) /\ i <= Len(b)
           \/ i <= Len(a) /\ i <= Len(b) /\ a[i] < b[i]

\* sort.Strings
SortStrings(S) == SortSeq(CHOOSE s \in [1..Cardinality(S) -> S] : Range(s) = S, StringLess)

RECURSIVE Decimal(_)
\* decimal rendering of a number, as byte values ('0' = 48)
Decimal(n) == IF n < 10 THEN <<48 + n>> ELSE Decimal(n \div 10) \o <<48 + (n % 10)>>

\* name of the directory of a minor version, "<major>.<minor>" ('.' = 46)
DirName(b) == Decimal(b[1]) \o <<46>> \o Decimal(b[2])

Whitespace == {" ", "\n", "\t", "\r"}

RECURSIVE SplitFrom(_, _, _)
\* strings.Split(s, ";") from position i on, cur being the segment in progress
SplitFrom(s, i, cur) ==
    IF i > Len(s) THEN <<cur>>
    ELSE IF s[i] = ";" THEN <<cur>> \o SplitFrom(s, i + 1, <<>>)
    ELSE SplitFrom(s, i + 1, Append(cur, s[i]))

\* strings.Split(s, ";")
Split(s) == SplitFrom(s, 1, <<>>)

RECURSIVE TrimLeft(_)
TrimLeft(s) == IF s # <<>> /\ Head(s) \in Whitespace THEN TrimLeft(Tail(s)) ELSE s

RECURSIVE TrimRight(_)
TrimRight(s) ==
    IF s # <<>> /\ s[Len(s)] \in Whitespace THEN TrimRight(SubSeq(s, 1, Len(s) - 1)) ELSE s

\* strings.TrimSpace
TrimSpace(s) == TrimRight(TrimLeft(s))

\* the statement loop without its guard: no segment is skipped
SkipNone(seg) == FALSE

\* the guard of the statement loop: a segment is skipped when it trims to ""
Skipped(seg) == TrimSpace(seg) = <<>>

\* indexes of the segments of a script that are handed to ExecContext, in order
RECURSIVE KeptFrom(_, _)
KeptFrom(sg, i) ==
    IF i > Len(sg) THEN <<>>
    ELSE (IF Skipped(sg[i]) THEN <<>> ELSE <<i>>) \o KeptFrom(sg, i + 1)

StatementIndexes(s) == KeptFrom(Split(s), 1)

----------------------------------------------------------------------------
(* Version comparator (package server/version) *)

\* component-wise comparison, major first: -1, 0 or 1
RECURSIVE CompareFrom(_, _, _)
CompareFrom(a, b, i) ==
    IF i > Len(a) THEN 0
    ELSE IF a[i] < b[i] THEN 0 - 1
    ELSE IF a[i] > b[i] THEN 1
    ELSE CompareFrom(a, b, i + 1)

IsVersionGreaterThan(v, target) == CompareFrom(v, target, 1) > 0

IsVersionGreaterOrEqualThan(v, target) == CompareFrom(v, target, 1) > 0 - 1

\* major.minor of the version with patch 0
GetSchemaVersion(v) == <<v[1], v[2], 0>>

\* sort.Sort(version.SortVersion(list)): ascending under the comparator
SortVersion(list) == SortSeq(list, LAMBDA x, y : CompareFrom(x, y, 1) < 0)

\* profile.IsDev
IsDev(m) == m # "prod"

----------------------------------------------------------------------------
(* Script catalog: the embedded migration and seed trees *)

Modes == {"prod", "dev", "demo"}

\* releases the production binary may be
AppVersions ==
    {<<0, 8, 0>>, <<0, 9, 0>>, <<0, 10, 0>>, <<0, 10, 1>>, <<0, 11, 0>>, <<0, 11, 1>>,
     <<0, 12, 0>>}

\* version.GetCurrentVersion: the development version in dev and demo mode
DevVersion == <<0, 12, 0>>

GetCurrentVersions(m) == IF m = "prod" THEN AppVersions ELSE {DevVersion}

\* directories migration/prod/<major>.<minor>
Buckets == {<<0, 9>>, <<0, 10>>, <<0, 11>>}

NoBucket == <<0, 0>>

NoVersion == <<0, 0, 0>>

\* *.sql files of a bucket: name (bytes, "01" = <<48, 49>>) and content
Files(b) ==
    IF b = <<0, 9>> THEN {[name |-> <<48, 49>>, content |-> <<"a", ";">>]}
    ELSE IF b = <<0, 10>> THEN
        {[name |-> <<49, 48>>, content |-> <<"c", ";", "\n">>],
         [name |-> <<48, 50>>, content |-> <<"a", ";", " ", ";", "b">>]}
    ELSE IF b = <<0, 11>> THEN
        {[name |-> <<48, 49>>, content |-> <<"a", ";", "\n", "b", ";">>]}
    ELSE {}

\* seed/*.sql
SeedFiles == {[name |-> <<48, 49>>, content |-> <<"s", ";", " ">>]}

Stmt(kind, b, f, k) == [kind |-> kind, b |-> b, f |-> f, k |-> k]

\* statements of migration/prod/LATEST__SCHEMA.sql and migration/dev/LATEST__SCHEMA.sql
ProdSchema == <<Stmt("prod", NoBucket, <<>>, 1), Stmt("prod", NoBucket, <<>>, 2)>>

DevSchema == <<Stmt("dev", NoBucket, <<>>, 1), Stmt("dev", NoBucket, <<>>, 2)>>

----------------------------------------------------------------------------
(* Operations of a Migrate call *)

Op(op, unit, b, f, stmts, v) ==
    [op |-> op, unit |-> unit, b |-> b, f |-> f, stmts |-> stmts, v |-> v]

RECURSIVE Flatten(_)
Flatten(ss) == IF ss = <<>> THEN <<>> ELSE Head(ss) \o Flatten(Tail(ss))

\* fs.Glob followed by sort.Strings: the file names of a set of files, sorted
SortedNames(files) == SortStrings({f.name : f \in files})

ContentOf(files, name) == (CHOOSE f \in files : f.name = name).content

\* one file: ReadFile, then ExecContext for each statement that is not skipped
FilePlan(unit, b, files, name) ==
    LET idx == StatementIndexes(ContentOf(files, name))
    IN  <<Op("read", unit, b, name, <<>>, NoVersion)>>
        \o [i \in 1..Len(idx) |->
              Op("exec", unit, b, name, <<Stmt(unit, b, name, idx[i])>>, NoVersion)]

\* the file loop of applyMigrationForMinorVersion and of seed
FilesPlan(unit, b, files) ==
    LET names == SortedNames(files)
    IN  <<Op("glob", unit, b, <<>>, <<>>, NoVersion)>>
        \o Flatten([i \in 1..Len(names) |-> FilePlan(unit, b, files, names[i])])

\* minorVersion + ".0"
Normalized(b) == <<b[1], b[2], 0>>

\* applyMigrationForMinorVersion: the upsert placed before the scripts
BucketPlanUpsertFirst(b) ==
    <<Op("glob", "bucket", b, <<>>, <<>>, NoVersion),
      Op("upsert", "bucket", b, <<>>, <<>>, Normalized(b))>>
    \o Tail(FilesPlan("bucket", b, Files(b)))

\* applyMigrationForMinorVersion: every script of the bucket, then the upsert
BucketPlan(b) ==
    FilesPlan("bucket", b, Files(b))
    \o <<Op("upsert", "bucket", b, <<>>, <<>>, Normalized(b))>>

\* seed
SeedPlan == FilesPlan("seed", NoBucket, SeedFiles)

\* nonProdMigrate: seeding whatever the mode
NonProdPlanAlwaysSeed(m) ==
    <<Op("read", "dev", NoBucket, <<>>, <<>>, NoVersion),
      Op("script", "dev", NoBucket, <<>>, DevSchema, NoVersion)>>
    \o SeedPlan

\* nonProdMigrate: recording the version after the schema
NonProdPlanRecording(m) ==
    <<Op("read", "dev", NoBucket, <<>>, <<>>, NoVersion),
      Op("script", "dev", NoBucket, <<>>, DevSchema, NoVersion),
      Op("upsert", "dev", NoBucket, <<>>, <<>>, DevVersion)>>
    \o (IF m = "demo" THEN SeedPlan ELSE <<>>)

\* nonProdMigrate
NonProdPlan(m) ==
    <<Op("read", "dev", NoBucket, <<>>, <<>>, NoVersion),
      Op("script", "dev", NoBucket, <<>>, DevSchema, NoVersion)>>
    \o (IF m = "demo" THEN SeedPlan ELSE <<>>)

\* bootstrap recording the schema version instead of the current version
BootstrapPlanSchemaVersion(cur) ==
    <<Op("read", "bootstrap", NoBucket, <<>>, <<>>, NoVersion),
      Op("script", "bootstrap", NoBucket, <<>>, ProdSchema, NoVersion),
      Op("upsert", "bootstrap", NoBucket, <<>>, <<>>, GetSchemaVersion(cur))>>

\* prodMigrate with no migration history: latest schema, then the upsert
BootstrapPlan(cur) ==
    <<Op("read", "bootstrap", NoBucket, <<>>, <<>>, NoVersion),
      Op("script", "bootstrap", NoBucket, <<>>, ProdSchema, NoVersion),
      Op("upsert", "bootstrap", NoBucket, <<>>, <<>>, cur)>>

\* fs.WalkDir visits the directories in lexical order of their names
WalkDirList ==
    SortSeq(CHOOSE s \in [1..Cardinality(Buckets) -> Buckets] : Range(s) = Buckets,
            LAMBDA x, y : StringLess(DirName(x), DirName(y)))

\* getMinorVersionList without the final sort
getMinorVersionListUnsorted == WalkDirList

\* the minor version directories, sorted by version
getMinorVersionList == SortVersion(WalkDirList)

\* the last element of the list as returned, without sorting it
LatestVersionUnsorted(list) == list[Len(list)]

\* latestMigrationHistoryVersion
LatestVersion(list) == LET s == SortVersion(list) IN s[Len(s)]

\* the no-migration check
NeedMigrate(cur, latest) == IsVersionGreaterThan(GetSchemaVersion(cur), latest)

\* the range check with the lower bound not strict
InRangeNotStrict(nv, latest, cur) ==
    IsVersionGreaterOrEqualThan(nv, latest) /\ IsVersionGreaterOrEqualThan(cur, nv)

\* the range check without its lower bound
InRangeNoLower(nv, latest, cur) == IsVersionGreaterOrEqualThan(cur, nv)

\* the condition of the bucket loop
InRange(nv, latest, cur) ==
    IsVersionGreaterThan(nv, latest) /\ IsVersionGreaterOrEqualThan(cur, nv)

\* the bucket loop leaving after the first bucket it applies
BucketsToApplyFirstOnly(latest, cur) ==
    LET bs == SelectSeq(getMinorVersionList, LAMBDA b : InRange(Normalized(b), latest, cur))
    IN  IF bs = <<>> THEN <<>> ELSE <<Head(bs)>>

\* the buckets the loop of prodMigrate applies, in order
BucketsToApply(latest, cur) ==
    SelectSeq(getMinorVersionList, LAMBDA b : InRange(Normalized(b), latest, cur))

\* the steps of each bucket of the catalog
BucketPlans == [b \in Buckets |-> BucketPlan(b)]

IncrementalPlan(latest, cur) ==
    LET bs == BucketsToApply(latest, cur)
    IN  Flatten([i \in 1..Len(bs) |-> BucketPlans[bs[i]]])

----------------------------------------------------------------------------
(* Migration history store *)

\* the rows in any order
FindMigrationHistoryList(h) ==
    {[i \in 1..Len(h) |-> h[p[i]]] : p \in Permutations(1..Len(h))}

\* insert unless the version is present
UpsertMigrationHistory(h, v) == IF v \in Range(h) THEN h ELSE Append(h, v)

----------------------------------------------------------------------------
(* State after construction *)

NoFailure == [kind |-> "none", unit |-> "none", b |-> NoBucket]

NoCall ==
    [result |-> "none", mode |-> "prod", version |-> NoVersion, path |-> "none",
     written |-> <<>>, failure |-> NoFailure]

SplitIdle == script = <<>> /\ segs = <<>> /\ executed = <<>>

\* the tables Vacuum cleans, and the user table their rows point into
Families == {"memo", "resource", "user_setting", "memo_organizer", "memo_relation",
             "tag"}

Tables == Families \cup {"user"}

EmptyDB == [t \in Tables |-> {}]

VacIdle ==
    /\ db = EmptyDB /\ txdb = EmptyDB /\ db0 = EmptyDB
    /\ tx = "none" /\ vpc = "idle" /\ vtodo = <<>> /\ vfail = "none"
    /\ reclaim = "never" /\ vcalls = 0 /\ vprev = "none"

BakIdle ==
    /\ bpc = "idle" /\ held = 0 /\ sess = "none" /\ unfinished = 0
    /\ total = 0 /\ copied = 0 /\ more = FALSE
    /\ bfail = "none" /\ bres = "none" /\ bcalls = 0

MigStart(m, v) ==
    /\ mode = m
    /\ version = v
    /\ history = <<>>
    /\ recInfo = <<>>
    /\ schema = {}
    /\ seedRuns = 0
    /\ pc = "idle"
    /\ path = "none"
    /\ todo = <<>>
    /\ log = <<>>
    /\ written = <<>>
    /\ unitLog = <<>>
    /\ unitStart = [schema |-> {}, history |-> <<>>]
    /\ startHist = <<>>
    /\ startSchema = {}
    /\ failure = NoFailure
    /\ calls = 0
    /\ prev = NoCall
    /\ listed = 0

Init ==
    /\ \E m \in Modes : \E v \in GetCurrentVersions(m) : MigStart(m, v)
    /\ SplitIdle
    /\ VacIdle
    /\ BakIdle

----------------------------------------------------------------------------
(* The process is started with another profile or another release *)

Restart(m, v) ==
    /\ pc = "idle"
    /\ calls < MaxCalls
    /\ v \in GetCurrentVersions(m)
    /\ <<m, v>> # <<mode, version>>
    /\ mode' = m
    /\ version' = v
    /\ UNCHANGED <<history, recInfo, schema, seedRuns, pc, path, todo, log, written,
                   unitLog, unitStart, startHist, startSchema, failure, calls, prev>>
    /\ UNCHANGED otherVars

----------------------------------------------------------------------------
(* Migrate *)

\* entry of a call: nothing executed or written yet
Enter ==
    /\ pc = "idle"
    /\ calls < MaxCalls
    /\ log' = <<>>
    /\ written' = <<>>
    /\ unitLog' = <<>>
    /\ unitStart' = [schema |-> schema, history |-> history]
    /\ startHist' = history
    /\ startSchema' = schema
    /\ UNCHANGED <<mode, version, history, recInfo, schema, seedRuns, calls, prev>>
    /\ UNCHANGED <<splitVars, vacVars, bakVars>>

\* Migrate in dev or demo mode: nonProdMigrate
MigrateDev ==
    /\ Enter
    /\ IsDev(mode)
    /\ pc' = "run"
    /\ path' = "dev"
    /\ todo' = NonProdPlan(mode)
    /\ listed' = 0
    /\ UNCHANGED failure

\* prodMigrate: FindMigrationHistoryList returns an error
MigrateListFail ==
    /\ Enter
    /\ ~IsDev(mode)
    /\ pc' = "failed"
    /\ path' = "none"
    /\ todo' = <<>>
    /\ failure' = [kind |-> "list", unit |-> "none", b |-> NoBucket]
    /\ listed' = 1

\* prodMigrate: no migration history
MigrateBootstrap ==
    /\ Enter
    /\ ~IsDev(mode)
    /\ \E list \in FindMigrationHistoryList(history) :
        /\ Len(list) = 0
        /\ pc' = "run"
        /\ path' = "bootstrap"
        /\ todo' = BootstrapPlan(version)
    /\ listed' = 1
    /\ UNCHANGED failure

\* prodMigrate: the schema version is not greater than the latest recorded one
MigrateNoop ==
    /\ Enter
    /\ ~IsDev(mode)
    /\ \E list \in FindMigrationHistoryList(history) :
        /\ Len(list) # 0
        /\ ~NeedMigrate(version, LatestVersion(list))
        /\ pc' = "done"
        /\ path' = "noop"
        /\ todo' = <<>>
    /\ listed' = 1
    /\ UNCHANGED failure

\* prodMigrate: the bucket loop
MigrateIncremental ==
    /\ Enter
    /\ ~IsDev(mode)
    /\ \E list \in FindMigrationHistoryList(history) :
        /\ Len(list) # 0
        /\ NeedMigrate(version, LatestVersion(list))
        /\ pc' = "run"
        /\ path' = "incremental"
        /\ todo' = IncrementalPlan(LatestVersion(list), version)
    /\ listed' = 1
    /\ UNCHANGED failure

\* the next operation of the running call
Next1(kind) == pc = "run" /\ todo # <<>> /\ Head(todo).op = kind

\* the error of the current operation is recorded and the call goes on with
\* its next operation
AbortContinue(kind) ==
    /\ pc' = pc
    /\ failure' = [kind |-> kind, unit |-> Head(todo).unit, b |-> Head(todo).b]
    /\ todo' = Tail(todo)
    /\ UNCHANGED <<mode, version, path, written, startHist, startSchema, calls, prev>>
    /\ UNCHANGED otherVars

\* the call returns an error from its current operation
Abort(kind) ==
    /\ pc' = "failed"
    /\ failure' = [kind |-> kind, unit |-> Head(todo).unit, b |-> Head(todo).b]
    /\ UNCHANGED <<mode, version, path, todo, written, startHist, startSchema, calls, prev>>
    /\ UNCHANGED otherVars

\* fs.Glob: the pattern is well formed, so it returns the file names
Glob ==
    /\ Next1("glob")
    /\ todo' = Tail(todo)
    /\ unitLog' = <<>>
    /\ unitStart' = [schema |-> schema, history |-> history]
    /\ UNCHANGED <<mode, version, history, recInfo, schema, seedRuns, pc, path, log, written,
                   startHist, startSchema, failure, calls, prev>>
    /\ UNCHANGED otherVars

ReadFileOk ==
    /\ Next1("read")
    /\ todo' = Tail(todo)
    /\ UNCHANGED <<mode, version, history, recInfo, schema, seedRuns, pc, path, log,
                   written, unitLog, unitStart, startHist, startSchema, failure, calls, prev>>
    /\ UNCHANGED otherVars

ReadFileFail ==
    /\ Next1("read")
    /\ Abort("read")
    /\ UNCHANGED <<history, recInfo, schema, seedRuns, log, unitLog, unitStart>>

\* ExecContext of one statement of a bucket or seed file: applied at once
ExecOk ==
    /\ Next1("exec")
    /\ todo' = Tail(todo)
    /\ schema' = schema \cup Range(Head(todo).stmts)
    /\ log' = log \o Head(todo).stmts
    /\ unitLog' = unitLog \o Head(todo).stmts
    /\ seedRuns' = IF Head(todo).unit = "seed" THEN seedRuns + 1 ELSE seedRuns
    /\ UNCHANGED <<mode, version, history, recInfo, pc, path, written,
                   unitStart, startHist, startSchema, failure, calls, prev>>
    /\ UNCHANGED otherVars

ExecFail ==
    /\ Next1("exec")
    /\ Abort("exec")
    /\ UNCHANGED <<history, recInfo, schema, seedRuns, log, unitLog, unitStart>>

\* ExecContext of a whole LATEST__SCHEMA.sql file
ScriptOk ==
    /\ Next1("script")
    /\ todo' = Tail(todo)
    /\ schema' = schema \cup Range(Head(todo).stmts)
    /\ log' = log \o Head(todo).stmts
    /\ unitLog' = unitLog \o Head(todo).stmts
    /\ UNCHANGED <<mode, version, history, recInfo, seedRuns, pc, path, written,
                   unitStart, startHist, startSchema, failure, calls, prev>>
    /\ UNCHANGED otherVars

\* the server stops at the k-th statement of the file; those before it stay applied
ScriptFail(k) ==
    /\ Next1("script")
    /\ Abort("exec")
    /\ schema' = schema \cup Range(SubSeq(Head(todo).stmts, 1, k - 1))
    /\ log' = log \o SubSeq(Head(todo).stmts, 1, k - 1)
    /\ unitLog' = unitLog \o SubSeq(Head(todo).stmts, 1, k - 1)
    /\ UNCHANGED <<history, recInfo, seedRuns, unitStart>>

\* what the call had executed when it wrote the row
Evidence(op) ==
    [via |-> op.unit, v |-> op.v, b |-> op.b, executed |-> Range(log)]

UpsertOk ==
    /\ Next1("upsert")
    /\ todo' = Tail(todo)
    /\ history' = UpsertMigrationHistory(history, Head(todo).v)
    /\ recInfo' = IF Len(history') > Len(history)
                  THEN Append(recInfo, Evidence(Head(todo))) ELSE recInfo
    /\ written' = Append(written, Head(todo).v)
    /\ UNCHANGED <<mode, version, schema, seedRuns, pc, path, log, unitLog, unitStart,
                   startHist, startSchema, failure, calls, prev>>
    /\ UNCHANGED otherVars

UpsertFail ==
    /\ Next1("upsert")
    /\ Abort("upsert")
    /\ UNCHANGED <<history, recInfo, schema, seedRuns, log, unitLog, unitStart>>

\* nothing left to do: the call returns nil
Complete ==
    /\ pc = "run"
    /\ todo = <<>>
    /\ pc' = "done"
    /\ UNCHANGED <<mode, version, history, recInfo, schema, seedRuns, path, todo, log,
                   written, unitLog, unitStart, startHist, startSchema, failure, calls, prev>>
    /\ UNCHANGED otherVars

\* the caller has the result
Return ==
    /\ pc \in {"done", "failed"}
    /\ pc' = "idle"
    /\ calls' = calls + 1
    /\ prev' = [result |-> IF pc = "done" THEN "ok" ELSE "err", mode |-> mode,
                version |-> version, path |-> path, written |-> written,
                failure |-> failure]
    /\ path' = "none"
    /\ todo' = <<>>
    /\ failure' = NoFailure
    /\ UNCHANGED <<mode, version, history, recInfo, schema, seedRuns, log, written,
                   unitLog, unitStart, startHist, startSchema>>
    /\ UNCHANGED otherVars

Next ==
    \/ \E m \in Modes, v \in AppVersions : Restart(m, v)
    \/ MigrateDev
    \/ MigrateListFail
    \/ MigrateBootstrap
    \/ MigrateNoop
    \/ MigrateIncremental
    \/ Glob
    \/ ReadFileOk
    \/ ReadFileFail
    \/ ExecOk
    \/ ExecFail
    \/ ScriptOk
    \/ \E k \in 1..Len(ProdSchema) : ScriptFail(k)
    \/ UpsertOk
    \/ UpsertFail
    \/ Complete
    \/ Return

Spec == Init /\ [][Next]_vars

----------------------------------------------------------------------------
(* One release migrating its database, re-invoked after each failure *)

\* the database as the bootstrap of release v0 left it
Bootstrapped(v0) ==
    /\ history = <<v0>>
    /\ schema = Range(ProdSchema)
    /\ recInfo = <<[via |-> "bootstrap", v |-> v0, b |-> NoBucket,
                    executed |-> Range(ProdSchema)]>>

\* a production process of one release, started on a database that is empty
\* or was bootstrapped by some release
LiveInit ==
    /\ mode = "prod"
    /\ version \in GetCurrentVersions("prod")
    /\ \/ history = <<>> /\ schema = {} /\ recInfo = <<>>
       \/ \E v0 \in GetCurrentVersions("prod") : Bootstrapped(v0)
    /\ seedRuns = 0
    /\ pc = "idle"
    /\ path = "none"
    /\ todo = <<>>
    /\ log = <<>>
    /\ written = <<>>
    /\ unitLog = <<>>
    /\ unitStart = [schema |-> {}, history |-> <<>>]
    /\ startHist = <<>>
    /\ startSchema = {}
    /\ failure = NoFailure
    /\ calls = 0
    /\ prev = NoCall
    /\ listed = 0
    /\ SplitIdle
    /\ VacIdle
    /\ BakIdle

\* the steps of a call that return no error, and its entry and return
Progress ==
    \/ MigrateBootstrap
    \/ MigrateNoop
    \/ MigrateIncremental
    \/ Glob
    \/ ReadFileOk
    \/ ExecOk
    \/ ScriptOk
    \/ UpsertOk
    \/ Complete
    \/ Return

\* failures stop: the last two calls meet none
FailuresAllowed == calls < MaxCalls - 2

\* the steps that return an error, while failures last
LiveListFail == FailuresAllowed /\ MigrateListFail

LiveReadFileFail == FailuresAllowed /\ ReadFileFail

LiveExecFail == FailuresAllowed /\ ExecFail

LiveScriptFail(k) == FailuresAllowed /\ ScriptFail(k)

LiveUpsertFail == FailuresAllowed /\ UpsertFail

LiveNext ==
    \/ Progress
    \/ LiveListFail
    \/ LiveReadFileFail
    \/ LiveExecFail
    \/ \E k \in 1..Len(ProdSchema) : LiveScriptFail(k)
    \/ LiveUpsertFail

\* the process runs and Migrate is invoked again after each return
LiveSpec == LiveInit /\ [][LiveNext]_vars /\ WF_vars(Progress)

----------------------------------------------------------------------------
(* The statement loop of applyMigrationForMinorVersion and seed on one script *)

\* the script of the statement-splitting example
ExampleScript ==
    <<"C", "R", "E", "A", "T", "E", " ", "T", "A", "B", "L", "E", " ", "t", "(", "x",
      " ", "i", "n", "t", ")", ";", " ", "-", "-", " ", "c", "o", "m", "m", "e", "n",
      "t", "\n", ";", " ", " ", "\n", "I", "N", "S", "E", "R", "T", " ", "I", "N", "T",
      "O", " ", "t", " ", "V", "A", "L", "U", "E", "S", "(", "1", ")", ";">>

Alphabet == {"a", ";", " ", "\n"}

Scripts == UNION {[1..n -> Alphabet] : n \in 0..MaxLen} \cup {ExampleScript}

SplitInit ==
    /\ MigStart("prod", DevVersion)
    /\ script \in Scripts
    /\ segs = Split(script)
    /\ executed = <<>>
    /\ VacIdle
    /\ BakIdle

\* strings.TrimSpace(stmt) == "": continue
SplitSkip ==
    /\ segs # <<>>
    /\ Skipped(Head(segs))
    /\ segs' = Tail(segs)
    /\ UNCHANGED <<script, executed>>
    /\ UNCHANGED <<migVars, vacVars, bakVars>>

\* d.db.ExecContext(ctx, stmt)
SplitExec ==
    /\ segs # <<>>
    /\ ~Skipped(Head(segs))
    /\ segs' = Tail(segs)
    /\ executed' = Append(executed, Head(segs))
    /\ UNCHANGED script
    /\ UNCHANGED <<migVars, vacVars, bakVars>>

SplitNext == SplitSkip \/ SplitExec

SplitSpec == SplitInit /\ [][SplitNext]_vars

----------------------------------------------------------------------------
(* Vacuum of the sqlite driver *)

MaxVacuums == 2

\* a row: its id, the user it points to (0: none) and the memos it points to
Row(id, u, m) == [id |-> id, u |-> u, m |-> m]

\* the rows a table may hold
Rows(t) ==
    CASE t = "user" -> {Row(1, 0, {}), Row(2, 0, {})}
      [] t = "memo" -> {Row(1, 1, {}), Row(2, 2, {})}
      [] t = "resource" -> {Row(1, 1, {}), Row(2, 2, {})}
      [] t = "user_setting" -> {Row(1, 1, {}), Row(2, 2, {})}
      [] t = "memo_organizer" -> {Row(1, 1, {1}), Row(2, 1, {2})}
      [] t = "memo_relation" -> {Row(1, 0, {1}), Row(2, 0, {1, 2})}
      [] t = "tag" -> {Row(1, 0, {1}), Row(2, 0, {2})}

\* the databases Vacuum may be called on: foreign keys are not enforced, so
\* any user and any memo may have been deleted under the rows that point to it
Databases ==
    {[t \in Tables |-> IF t = "user" THEN us
                       ELSE IF t = "memo" THEN ms
                       ELSE IF t \in full THEN Rows(t) ELSE {}] :
        us \in SUBSET Rows("user"), ms \in SUBSET Rows("memo"),
        full \in SUBSET (Families \ {"memo"})}

\* the user and the memos row r points to are rows of database d
OwnerExists(r, d) ==
    /\ r.u = 0 \/ \E x \in d["user"] : x.id = r.u
    /\ \A k \in r.m : \E x \in d["memo"] : x.id = k

\* vacuumMemo, vacuumResource, ...: delete the rows of table t whose owner is
\* not in the database as the transaction sees it
Cleanup(t, d) == [d EXCEPT ![t] = {r \in d[t] : OwnerExists(r, d)}]

\* vacuumImpl with the memos cleaned last
vacuumImplMemoLast ==
    <<"resource", "user_setting", "memo_organizer", "memo_relation", "tag", "memo">>

\* vacuumImpl: the order of the cleanups
vacuumImpl ==
    <<"memo", "resource", "user_setting", "memo_organizer", "memo_relation", "tag">>

\* Vacuum with the VACUUM command executed before the commit
VacuumPlanReclaimFirst == <<"begin">> \o vacuumImpl \o <<"vacuum", "commit">>

\* Vacuum: BeginTx, vacuumImpl, Commit, Exec("VACUUM")
VacuumPlan == <<"begin">> \o vacuumImpl \o <<"commit", "vacuum">>

\* tx.Rollback keeping the work of the transaction
RollbackKeeps(committed, working) == working

\* defer tx.Rollback(): the database is as it was committed
Rollback(committed, working) == committed

VacuumInit ==
    /\ MigStart("prod", DevVersion)
    /\ SplitIdle
    /\ BakIdle
    /\ db \in Databases
    /\ txdb = db
    /\ db0 = db
    /\ tx = "none"
    /\ vpc = "idle"
    /\ vtodo = <<>>
    /\ vfail = "none"
    /\ reclaim = "never"
    /\ vcalls = 0
    /\ vprev = "none"

\* entry of Vacuum
VacuumCall ==
    /\ vpc = "idle"
    /\ vcalls < MaxVacuums
    /\ vpc' = "run"
    /\ vtodo' = VacuumPlan
    /\ db0' = db
    /\ txdb' = db
    /\ tx' = "none"
    /\ vfail' = "none"
    /\ reclaim' = "never"
    /\ UNCHANGED <<db, vcalls, vprev>>
    /\ UNCHANGED <<migVars, splitVars, bakVars>>

\* the next step of the running Vacuum call
VNext(step) == vpc = "run" /\ vtodo # <<>> /\ Head(vtodo) = step

\* the step succeeds
VStep == vtodo' = Tail(vtodo) /\ UNCHANGED <<vpc, vfail, db0, vcalls, vprev>>

\* the step returns an error, and so does Vacuum
VAbort ==
    /\ vpc' = "failed"
    /\ vfail' = Head(vtodo)
    /\ UNCHANGED <<db, txdb, db0, tx, vtodo, vcalls, vprev>>

\* d.db.BeginTx
BeginTxOk ==
    /\ VNext("begin")
    /\ VStep
    /\ tx' = "open"
    /\ txdb' = db
    /\ UNCHANGED <<db, reclaim>>
    /\ UNCHANGED <<migVars, splitVars, bakVars>>

BeginTxFail ==
    /\ VNext("begin")
    /\ VAbort
    /\ UNCHANGED reclaim
    /\ UNCHANGED <<migVars, splitVars, bakVars>>

\* vacuumImpl: one cleanup, inside the transaction
CleanOk ==
    /\ \E t \in Families : VNext(t)
    /\ VStep
    /\ txdb' = Cleanup(Head(vtodo), txdb)
    /\ UNCHANGED <<db, tx, reclaim>>
    /\ UNCHANGED <<migVars, splitVars, bakVars>>

CleanFail ==
    /\ \E t \in Families : VNext(t)
    /\ VAbort
    /\ UNCHANGED reclaim
    /\ UNCHANGED <<migVars, splitVars, bakVars>>

\* tx.Commit: the work of the transaction becomes the database
CommitOk ==
    /\ VNext("commit")
    /\ VStep
    /\ db' = txdb
    /\ tx' = "committed"
    /\ UNCHANGED <<txdb, reclaim>>
    /\ UNCHANGED <<migVars, splitVars, bakVars>>

CommitFail ==
    /\ VNext("commit")
    /\ VAbort
    /\ UNCHANGED reclaim
    /\ UNCHANGED <<migVars, splitVars, bakVars>>

\* d.db.Exec("VACUUM"), on the pool: reclaim records the state the transaction
\* was in when the command was executed
ReclaimOk ==
    /\ VNext("vacuum")
    /\ VStep
    /\ reclaim' = tx
    /\ UNCHANGED <<db, txdb, tx>>
    /\ UNCHANGED <<migVars, splitVars, bakVars>>

ReclaimFail ==
    /\ VNext("vacuum")
    /\ VAbort
    /\ reclaim' = tx
    /\ UNCHANGED <<migVars, splitVars, bakVars>>

\* return nil
VacuumComplete ==
    /\ vpc = "run"
    /\ vtodo = <<>>
    /\ vpc' = "done"
    /\ UNCHANGED <<db, txdb, db0, tx, vtodo, vfail, reclaim, vcalls, vprev>>
    /\ UNCHANGED <<migVars, splitVars, bakVars>>

\* the call returns: the deferred tx.Rollback() runs, and undoes the work of a
\* transaction that is still open
VacuumReturn ==
    /\ vpc \in {"done", "failed"}
    /\ vpc' = "idle"
    /\ db' = IF tx = "open" THEN Rollback(db, txdb) ELSE db
    /\ tx' = IF tx = "open" THEN "rolledback" ELSE tx
    /\ vtodo' = <<>>
    /\ vcalls' = vcalls + 1
    /\ vprev' = IF vpc = "done" THEN "ok" ELSE "err"
    /\ UNCHANGED <<txdb, db0, vfail, reclaim>>
    /\ UNCHANGED <<migVars, splitVars, bakVars>>

VacuumNext ==
    \/ VacuumCall
    \/ BeginTxOk
    \/ BeginTxFail
    \/ CleanOk
    \/ CleanFail
    \/ CommitOk
    \/ CommitFail
    \/ ReclaimOk
    \/ ReclaimFail
    \/ VacuumComplete
    \/ VacuumReturn

VacuumSpec == VacuumInit /\ [][VacuumNext]_vars

----------------------------------------------------------------------------
(* BackupTo of the sqlite driver *)

MaxPages == 3

MaxBackups == 2

BackupInit ==
    /\ MigStart("prod", DevVersion)
    /\ SplitIdle
    /\ VacIdle
    /\ bpc = "idle"
    /\ held = 0
    /\ sess = "none"
    /\ unfinished = 0
    /\ total \in 1..MaxPages
    /\ copied = 0
    /\ more = FALSE
    /\ bfail = "none"
    /\ bres = "none"
    /\ bcalls = 0

\* entry of BackupTo
BackupCall ==
    /\ bpc = "idle"
    /\ bcalls < MaxBackups
    /\ bpc' = "conn"
    /\ sess' = "none"
    /\ copied' = 0
    /\ more' = FALSE
    /\ bfail' = "none"
    /\ bres' = "none"
    /\ UNCHANGED <<held, unfinished, total, bcalls>>
    /\ UNCHANGED <<migVars, splitVars, vacVars>>

\* d.db.Conn: a connection of the pool is reserved, conn.Close is deferred
ConnOk ==
    /\ bpc = "conn"
    /\ bpc' = "open"
    /\ held' = held + 1
    /\ UNCHANGED <<sess, unfinished, total, copied, more, bfail, bres, bcalls>>
    /\ UNCHANGED <<migVars, splitVars, vacVars>>

\* d.db.Conn fails: BackupTo returns the error, no connection to close
ConnFail ==
    /\ bpc = "conn"
    /\ bpc' = "idle"
    /\ bfail' = "conn"
    /\ bres' = "err"
    /\ bcalls' = bcalls + 1
    /\ UNCHANGED <<held, sess, unfinished, total, copied, more>>
    /\ UNCHANGED <<migVars, splitVars, vacVars>>

\* backupConn.NewBackup(filename): the session is open on the destination
\* file; for more := true
NewBackupOk ==
    /\ bpc = "open"
    /\ bpc' = "loop"
    /\ sess' = "open"
    /\ unfinished' = unfinished + 1
    /\ more' = TRUE
    /\ UNCHANGED <<held, total, copied, bfail, bres, bcalls>>
    /\ UNCHANGED <<migVars, splitVars, vacVars>>

NewBackupFail ==
    /\ bpc = "open"
    /\ bpc' = "exit"
    /\ bfail' = "open"
    /\ UNCHANGED <<held, sess, unfinished, total, copied, more, bres, bcalls>>
    /\ UNCHANGED <<migVars, splitVars, vacVars>>

\* the loop leaving after its first test
LoopOnce(m) == FALSE

\* for more := true; more; { ... }
LoopCondition(m) == m

\* bck.Step(-1): some of the pages left are copied, and the step tells whether
\* pages are left
StepOk ==
    /\ bpc = "loop"
    /\ LoopCondition(more)
    /\ \E k \in 1..(total - copied) :
          /\ copied' = copied + k
          /\ more' = (copied + k < total)
    /\ UNCHANGED <<bpc, held, sess, unfinished, total, bfail, bres, bcalls>>
    /\ UNCHANGED <<migVars, splitVars, vacVars>>

\* bck.Step(-1) fails: the function passed to conn.Raw returns the error
StepFail ==
    /\ bpc = "loop"
    /\ LoopCondition(more)
    /\ bpc' = "exit"
    /\ bfail' = "step"
    /\ UNCHANGED <<held, sess, unfinished, total, copied, more, bres, bcalls>>
    /\ UNCHANGED <<migVars, splitVars, vacVars>>

\* return bck.Finish(): the session is finished
FinishOk ==
    /\ bpc = "loop"
    /\ ~LoopCondition(more)
    /\ bpc' = "exit"
    /\ sess' = "finished"
    /\ unfinished' = unfinished - 1
    /\ UNCHANGED <<held, total, copied, more, bfail, bres, bcalls>>
    /\ UNCHANGED <<migVars, splitVars, vacVars>>

\* bck.Finish() returns an error: the session is finished all the same
FinishFail ==
    /\ bpc = "loop"
    /\ ~LoopCondition(more)
    /\ bpc' = "exit"
    /\ sess' = "finished"
    /\ unfinished' = unfinished - 1
    /\ bfail' = "finish"
    /\ UNCHANGED <<held, total, copied, more, bres, bcalls>>
    /\ UNCHANGED <<migVars, splitVars, vacVars>>

\* conn.Raw has returned: BackupTo returns its error wrapped, or nil, and the
\* deferred conn.Close() gives the connection back
BackupReturn ==
    /\ bpc = "exit"
    /\ bpc' = "idle"
    /\ bres' = IF bfail = "none" THEN "ok" ELSE "err"
    /\ held' = held - 1
    /\ bcalls' = bcalls + 1
    /\ UNCHANGED <<sess, unfinished, total, copied, more, bfail>>
    /\ UNCHANGED <<migVars, splitVars, vacVars>>

BackupNext ==
    \/ BackupCall
    \/ ConnOk
    \/ ConnFail
    \/ NewBackupOk
    \/ NewBackupFail
    \/ StepOk
    \/ StepFail
    \/ FinishOk
    \/ FinishFail
    \/ BackupReturn

BackupSpec == BackupInit /\ [][BackupNext]_vars

----------------------------------------------------------------------------
(* Vocabulary of the properties *)

\* a < b on versions: lexicographic over (major, minor, patch)
VLt(a, b) ==
    \/ a[1] < b[1]
    \/ a[1] = b[1] /\ a[2] < b[2]
    \/ a[1] = b[1] /\ a[2] = b[2] /\ a[3] < b[3]

VLe(a, b) == a = b \/ VLt(a, b)

\* the greatest version of a non-empty history, whatever the order of its rows
MaxOf(h) == CHOOSE v \in Range(h) : \A w \in Range(h) : VLe(w, v)

BucketVersion(b) == <<b[1], b[2], 0>>

\* versions of the catalog buckets b with L < b.0 <= C, ascending
ExpectedVersions(L, C) ==
    LET S == {BucketVersion(b) : b \in {x \in Buckets : VLt(L, BucketVersion(x)) /\ VLe(BucketVersion(x), C)}}
    IN  CHOOSE s \in [1..Cardinality(S) -> S] :
            /\ Range(s) = S
            /\ \A i \in 1..(Cardinality(S) - 1) : VLt(s[i], s[i + 1])

IsPrefix(s, t) == Len(s) <= Len(t) /\ \A i \in 1..Len(s) : s[i] = t[i]

\* every statement of every script of bucket b that holds more than whitespace
NonEmptyStatements(b) ==
    UNION {{Stmt("bucket", b, f.name, k) :
              k \in {n \in 1..Len(Split(f.content)) :
                       \E j \in 1..Len(Split(f.content)[n]) :
                           Split(f.content)[n][j] \notin Whitespace}} : f \in Files(b)}

InCall == pc # "idle"

\* the previous call recorded 0.10 and then failed at a statement of 0.11
FailedIn011 ==
    /\ prev.result = "err"
    /\ prev.mode = "prod"
    /\ prev.failure.kind = "exec"
    /\ prev.failure.b = <<0, 11>>
    /\ prev.written = << <<0, 10, 0>> >>

\* C1: a bucket recorded before a call began has none of its statements executed
\* by that call; after a call that recorded 0.10 and failed in 0.11, the next
\* production call executes statements of 0.11 only and, once it succeeds with a
\* release of at least 0.11.0, has executed the two statements of 0.11 in order
\* and the history holds exactly one row 0.11.0.
C1_Resumable ==
    /\ \A i \in 1..Len(log) :
          log[i].kind = "bucket" => BucketVersion(log[i].b) \notin Range(startHist)
    /\ (InCall /\ mode = "prod" /\ FailedIn011) =>
          /\ \A i \in 1..Len(log) : log[i].b = <<0, 11>>
          /\ (pc = "done" /\ VLe(<<0, 11, 0>>, version)) =>
                /\ log = <<Stmt("bucket", <<0, 11>>, <<48, 49>>, 1),
                           Stmt("bucket", <<0, 11>>, <<48, 49>>, 2)>>
                /\ Cardinality({i \in 1..Len(history) : history[i] = <<0, 11, 0>>}) = 1

C1_Witness ==
    /\ pc = "done"
    /\ mode = "prod"
    /\ FailedIn011
    /\ Len(log) = 2
    /\ <<0, 11, 0>> \in Range(history)
    /\ <<0, 11, 0>> \notin Range(startHist)

\* C2: in a production call that found a non-empty history with greatest version
\* L, the versions recorded so far are a prefix of the ascending list of bucket
\* versions b.0 with L < b.0 <= C, every statement executed belongs to such a
\* bucket, and when the call succeeds the whole list has been recorded; with
\* L = 0.9.0 and C = 0.11.0 that is 0.10.0 then 0.11.0.
C2_BucketRange ==
    (InCall /\ path \in {"incremental", "noop"}) =>
        LET exp == ExpectedVersions(MaxOf(startHist), version)
        IN  /\ IsPrefix(written, exp)
            /\ \A i \in 1..Len(log) : BucketVersion(log[i].b) \in Range(exp)
            /\ \A i \in 1..Len(log), j \in 1..Len(log) :
                  i < j => VLe(BucketVersion(log[i].b), BucketVersion(log[j].b))
            /\ pc = "done" => written = exp
            /\ (pc = "done" /\ MaxOf(startHist) = <<0, 9, 0>> /\ version = <<0, 11, 0>>) =>
                  written = << <<0, 10, 0>>, <<0, 11, 0>> >>

C2_Witness ==
    /\ pc = "done"
    /\ path = "incremental"
    /\ MaxOf(startHist) = <<0, 9, 0>>
    /\ version = <<0, 11, 0>>
    /\ written = << <<0, 10, 0>>, <<0, 11, 0>> >>

\* C3: the rows of the history, in insertion order, have strictly increasing
\* versions (so no version appears twice).
C3_MonotonicHistory ==
    \A i \in 1..Len(history), j \in 1..Len(history) :
        i < j => VLt(history[i], history[j])

C3_Witness ==
    /\ Len(history) >= 2
    /\ history[1][3] > 0
    /\ prev.result = "err"

\* C4: every row written by a bucket was written after the call had executed
\* every non-empty statement of every script of that bucket, and every row
\* written by the bootstrap after the call had executed the whole production
\* schema.
C4_RecordedOnlyAfterScripts ==
    /\ Len(recInfo) = Len(history)
    /\ \A i \in 1..Len(recInfo) :
          /\ recInfo[i].v = history[i]
          /\ recInfo[i].via = "bucket" =>
                /\ recInfo[i].v = BucketVersion(recInfo[i].b)
                /\ NonEmptyStatements(recInfo[i].b) \subseteq recInfo[i].executed
          /\ recInfo[i].via = "bootstrap" => Range(ProdSchema) \subseteq recInfo[i].executed
          /\ recInfo[i].via \in {"bucket", "bootstrap"}

C4_Witness ==
    /\ Len(recInfo) >= 3
    /\ recInfo[1].via = "bootstrap"
    /\ recInfo[2].b = <<0, 10>>
    /\ Cardinality(NonEmptyStatements(<<0, 10>>)) = Cardinality(recInfo[2].executed)

\* C5: a successful call that follows a successful call made in the same mode by
\* the same release leaves the schema and the history as it found them, and in
\* production mode it executes no statement and upserts nothing.
C5_Idempotent ==
    (pc = "done" /\ prev.result = "ok" /\ prev.mode = mode /\ prev.version = version) =>
        /\ schema = startSchema
        /\ history = startHist
        /\ mode = "prod" => log = <<>> /\ written = <<>>

C5_Witness ==
    /\ pc = "done"
    /\ prev.result = "ok"
    /\ prev.mode = mode
    /\ prev.version = version
    /\ prev.path = "incremental"
    /\ prev.written # <<>>

ExecFailed == pc = "failed" /\ failure.kind = "exec"

\* C6 as stated, for a bucket: when a statement of a bucket fails, nothing that
\* the bucket had executed in this call is left applied.
C6_NoPartialCommit == (ExecFailed /\ failure.unit = "bucket") => schema = unitStart.schema

\* C6 amended: when a statement of a unit fails, the call returns an error without
\* writing the history row of that unit, and the statements of the unit that had
\* executed before the failing one stay applied.
C6_FailedUnitNotRecorded ==
    ExecFailed =>
        /\ history = unitStart.history
        /\ schema = unitStart.schema \cup Range(unitLog)
        /\ failure.unit = "bucket" => BucketVersion(failure.b) \notin Range(written)
        /\ failure.unit = "bootstrap" => written = <<>>

C6_Witness ==
    /\ ExecFailed
    /\ failure.unit = "bucket"
    /\ unitLog # <<>>
    /\ schema # unitStart.schema

\* the statements of the seed scripts
SeedStatements == {o.stmts[1] : o \in {x \in Range(SeedPlan) : x.op = "exec"}}

\* C7 as stated: over any sequence of calls every seed statement is executed at
\* most once on the database.
C7_SeedAtMostOnce == seedRuns <= Cardinality(SeedStatements)

\* C7 amended: a call executes seed statements only in demo mode, only on the
\* development path after it has executed the whole development schema, and each
\* seed statement at most once; a production call never seeds; every demo call
\* that gets past the schema seeds again, so the database is seeded at most once
\* per call.
C7_SeedOnlyAfterDevSchema ==
    /\ InCall =>
          /\ \A i \in 1..Len(log) :
                log[i].kind = "seed" =>
                    /\ mode = "demo"
                    /\ path = "dev"
                    /\ \A d \in Range(DevSchema) : \E j \in 1..(i - 1) : log[j] = d
                    /\ \A j \in 1..Len(log) : log[j] = log[i] => j = i
          /\ mode = "prod" => \A i \in 1..Len(log) : log[i].kind \in {"prod", "bucket"}
    /\ seedRuns <= Cardinality(SeedStatements) * (calls + (IF InCall THEN 1 ELSE 0))

C7_Witness ==
    /\ pc = "done"
    /\ mode = "demo"
    /\ prev.mode = "demo"
    /\ prev.result = "ok"
    /\ seedRuns = 2 * Cardinality(SeedStatements)
    /\ \E i \in 1..Len(log) : log[i].kind = "seed"

\* C8: a production call that finds the history empty takes the bootstrap path,
\* never the incremental or the no-op path; when it succeeds it has executed the
\* production schema and then recorded exactly the current version; when it
\* fails the history is still empty, so the next production call bootstraps
\* again.
C8_Bootstrap ==
    /\ (InCall /\ mode = "prod" /\ startHist = <<>>) =>
          /\ path \in {"bootstrap", "none"}
          /\ path = "none" => pc = "failed" /\ failure.kind = "list"
    /\ path = "bootstrap" =>
          /\ startHist = <<>>
          /\ written # <<>> => Range(ProdSchema) \subseteq Range(log)
          /\ pc = "done" => history = <<version>> /\ written = <<version>>
          /\ pc = "failed" => history = <<>>

C8_Witness ==
    /\ pc = "done"
    /\ path = "bootstrap"
    /\ prev.path = "bootstrap"
    /\ prev.result = "err"
    /\ prev.failure.kind = "upsert"
    /\ version[3] > 0

\* C9: a production call that finds a non-empty history whose greatest version is
\* not below the release's major.minor.0, and whose history read succeeds, returns
\* success at once: no statement executed, nothing upserted, schema and history
\* as found.
C9_Noop ==
    (InCall /\ mode = "prod" /\ startHist # <<>> /\ failure.kind # "list"
       /\ ~VLt(MaxOf(startHist), BucketVersion(version))) =>
        /\ path = "noop"
        /\ pc = "done"
        /\ log = <<>>
        /\ written = <<>>
        /\ history = startHist
        /\ schema = startSchema

C9_Witness ==
    /\ path = "noop"
    /\ pc = "done"
    /\ version[3] > 0
    /\ Len(startHist) >= 2
    /\ VLt(MaxOf(startHist), version)

----------------------------------------------------------------------------
(* Statement splitting *)

HasText(seg) == \E j \in 1..Len(seg) : seg[j] \notin Whitespace

\* the segments of the script visited so far
Visited == SubSeq(Split(script), 1, Len(Split(script)) - Len(segs))

RECURSIVE Join(_)
Join(ss) == IF Len(ss) = 1 THEN ss[1] ELSE ss[1] \o <<";">> \o Join(Tail(ss))

\* C10 as stated: the example script makes exactly two statements execute.
C10_ExampleTwoStatements == (script = ExampleScript /\ segs = <<>>) => Len(executed) = 2

\* C10 amended: the script is cut at every ';' (the pieces hold no ';' and joined
\* by ';' give the script back), the pieces that hold only whitespace are skipped
\* and the others are executed whole and in order; the example script makes
\* three statements execute: the CREATE, the piece holding the comment, and the
\* INSERT; only the empty piece after the last ';' is skipped.
C10_Splitting ==
    /\ segs = <<>> =>
          /\ Join(Split(script)) = script
          /\ \A i \in 1..Len(Split(script)) : ";" \notin Range(Split(script)[i])
    /\ executed = SelectSeq(Visited, HasText)
    /\ (script = ExampleScript /\ segs = <<>>) =>
          executed = <<
            <<"C", "R", "E", "A", "T", "E", " ", "T", "A", "B", "L", "E", " ", "t",
              "(", "x", " ", "i", "n", "t", ")">>,
            <<" ", "-", "-", " ", "c", "o", "m", "m", "e", "n", "t", "\n">>,
            <<" ", " ", "\n", "I", "N", "S", "E", "R", "T", " ", "I", "N", "T", "O",
              " ", "t", " ", "V", "A", "L", "U", "E", "S", "(", "1", ")">> >>

C10_Witness ==
    /\ script = ExampleScript
    /\ segs = <<>>
    /\ Len(executed) = 3
    /\ Len(Split(script)) = 4

----------------------------------------------------------------------------
(* Fail-fast *)

\* the steps the failed call has not reached
Remaining == IF todo = <<>> THEN <<>> ELSE Tail(todo)

\* C16: the first failure of the history read, of a script read, of a statement
\* or of a history upsert puts the call in its failed position, and a call is
\* in that position only through a failure; from there the only step is the
\* return of the error, which executes no statement, writes no history record
\* and starts no other bucket; a call that completes has met no failure.
C16_FailFast ==
    /\ []((failure # NoFailure) <=> (pc = "failed"))
    /\ [](pc = "done" => (failure = NoFailure /\ todo = <<>>))
    /\ [][pc = "failed" =>
            /\ pc' = "idle"
            /\ prev'.result = "err"
            /\ prev'.failure = failure
            /\ calls' = calls + 1
            /\ schema' = schema
            /\ history' = history
            /\ recInfo' = recInfo
            /\ log' = log
            /\ written' = written]_vars
    /\ [][pc' = "failed" /\ pc # "failed" =>
            /\ pc = "idle" \/ (pc = "run" /\ todo' = todo)
            /\ history' = history
            /\ recInfo' = recInfo]_vars

\* a statement of bucket 0.9 failed while the scripts and the record of a
\* later bucket were still to come
C16_Witness ==
    /\ pc = "failed"
    /\ failure.kind = "exec"
    /\ failure.b = <<0, 9>>
    /\ \E i \in 1..Len(Remaining) :
          Remaining[i].op = "upsert" /\ Remaining[i].b = <<0, 10>>
    /\ \E i \in 1..Len(Remaining) :
          Remaining[i].op = "exec" /\ Remaining[i].b = <<0, 10>>

----------------------------------------------------------------------------
(* Development mode *)

\* C17: a call in dev or demo mode takes the development path, on which it
\* never lists the migration history and never writes a history record; when
\* it completes it has executed the whole development schema, whatever the
\* database already held; no step taken while the mode is dev or demo changes
\* the history.
C17_DevIgnoresHistory ==
    /\ []((InCall /\ IsDev(mode) /\ pc # "failed") => path = "dev")
    /\ [](path = "dev" =>
            /\ IsDev(mode)
            /\ listed = 0
            /\ written = <<>>
            /\ history = startHist
            /\ \A i \in 1..Len(todo) : todo[i].op # "upsert"
            /\ pc = "done" => IsPrefix(DevSchema, log))
    /\ [][IsDev(mode) => (history' = history /\ recInfo' = recInfo)]_vars

\* the second development call in a row on a database that has a history and
\* already holds the development schema
C17_Witness ==
    /\ pc = "done"
    /\ path = "dev"
    /\ prev.path = "dev"
    /\ prev.result = "ok"
    /\ startHist # <<>>
    /\ Range(DevSchema) \subseteq startSchema
    /\ IsPrefix(DevSchema, log)

----------------------------------------------------------------------------
(* Convergence under retry *)

\* a history that holds the version its bootstrap recorded, then every catalog
\* bucket above it and not above the current version
Converged(h) == h # <<>> /\ h = <<h[1]>> \o ExpectedVersions(h[1], version)

\* C18: in production mode with a fixed current version, when Migrate is invoked
\* again after each failure and failures eventually stop, some call succeeds;
\* a call that succeeds leaves recorded every catalog bucket b with b.0 not
\* above the current version and above the version the database held at the
\* first call; from then on the history never changes, and every call that
\* starts on such a history executes no statement and writes no record.
C18_Convergence ==
    /\ <>(pc = "done")
    /\ [](pc = "done" => Converged(history))
    /\ []((InCall /\ Converged(startHist)) =>
            (log = <<>> /\ written = <<>> /\ history = startHist))
    /\ [][Converged(history) => history' = history]_vars

\* a call succeeds after a call that failed at a statement of bucket 0.10 having
\* recorded 0.9, and the history holds the three buckets
C18_Witness ==
    /\ pc = "done"
    /\ mode = "prod"
    /\ prev.result = "err"
    /\ prev.failure.kind = "exec"
    /\ prev.failure.b = <<0, 10>>
    /\ prev.written = <<<<0, 9, 0>>>>
    /\ history = <<<<0, 8, 0>>, <<0, 9, 0>>, <<0, 10, 0>>, <<0, 11, 0>>>>

----------------------------------------------------------------------------
(* Vacuum *)

Ids(rows) == {r.id : r \in rows}

\* the memos of database d whose creator is a user of d
LiveMemos(d) == {r \in d["memo"] : r.u \in Ids(d["user"])}

\* the rows of table t of database d that point to no missing user and to no
\* memo that is missing or has a missing creator
Owned(t, d) ==
    {r \in d[t] : /\ r.u # 0 => r.u \in Ids(d["user"])
                  /\ r.m \subseteq Ids(LiveMemos(d))}

\* database d without its orphans
Cleaned(d) == [t \in Tables |-> IF t = "user" THEN d[t] ELSE Owned(t, d)]

\* C11: when Vacuum has succeeded, the database holds the rows it held at the
\* call except the memos without creator and the rows of the other families
\* whose owner did not exist or was a memo this pass deleted; no row is left
\* whose owner is missing; every row whose owner exists is still there; a
\* database without orphans is left as it was, and so is the database by a
\* Vacuum that follows a successful one.
C11_VacuumSafety ==
    vpc = "done" =>
        /\ db = Cleaned(db0)
        /\ \A t \in Families : \A r \in db[t] : OwnerExists(r, db)
        /\ \A t \in Families : \A r \in db0[t] : OwnerExists(r, db) => r \in db[t]
        /\ db["user"] = db0["user"]
        /\ Cleaned(db0) = db0 => db = db0
        /\ vprev = "ok" => db = db0

\* user 2 is gone: memo 2 is deleted by the pass and, with it, the organizer
\* row, the relation and the tag that point to memo 2, while the rows that
\* point to memo 1 stay
C11_Witness ==
    /\ vpc = "done"
    /\ Ids(db0["user"]) = {1}
    /\ db0["memo"] = Rows("memo")
    /\ db0["memo_organizer"] = Rows("memo_organizer")
    /\ db0["memo_relation"] = Rows("memo_relation")
    /\ db0["tag"] = Rows("tag")
    /\ db["memo"] = {Row(1, 1, {})}
    /\ db["memo_organizer"] = {Row(1, 1, {1})}
    /\ db["memo_relation"] = {Row(1, 0, {1})}
    /\ db["tag"] = {Row(1, 0, {1})}

\* a Vacuum on a database without orphans, and a Vacuum after a Vacuum
C11_CleanWitness ==
    /\ vpc = "done"
    /\ vprev = "ok"
    /\ db = db0
    /\ db["tag"] # {}

\* the steps of Vacuum inside the transaction
InTransaction == Families \cup {"commit"}

\* C12: when a cleanup or the commit fails, Vacuum returns an error, the
\* transaction is rolled back, so the database is as it was when the call
\* began, whatever the cleanups before the failure had deleted, and the VACUUM
\* command is not executed.
C12_VacuumAtomic ==
    /\ (vpc = "failed") <=> (vpc # "idle" /\ vfail # "none")
    /\ vfail \in InTransaction =>
          /\ vpc \in {"failed", "idle"}
          /\ db = db0
          /\ reclaim = "never"
          /\ vtodo # <<>> => Head(vtodo) = vfail
          /\ vpc = "idle" => (vprev = "err" /\ tx = "rolledback")

\* the tag cleanup failed after the cleanups before it had deleted rows, and
\* the call has returned
C12_Witness ==
    /\ vpc = "idle"
    /\ vfail = "tag"
    /\ vprev = "err"
    /\ txdb["memo"] # db0["memo"]
    /\ txdb["memo_organizer"] # db0["memo_organizer"]
    /\ db = db0

\* C13: the VACUUM command is executed only when the transaction has been
\* committed, hence outside it, on the database the commit left; when it
\* fails Vacuum returns an error and the deletions stay committed.
C13_VacuumOrdering ==
    /\ [](reclaim \in {"never", "committed"})
    /\ [][reclaim' # reclaim /\ reclaim' # "never" =>
            /\ tx = "committed"
            /\ db = txdb
            /\ db' = db]_vars
    /\ [](vfail = "vacuum" =>
            /\ vpc \in {"failed", "idle"}
            /\ tx = "committed"
            /\ db = Cleaned(db0)
            /\ vpc = "idle" => vprev = "err")

\* the VACUUM command failed after the commit of deletions
C13_Witness ==
    /\ vpc = "idle"
    /\ vfail = "vacuum"
    /\ vprev = "err"
    /\ reclaim = "committed"
    /\ db # db0
    /\ db = Cleaned(db0)

----------------------------------------------------------------------------
(* BackupTo *)

Returned == bpc = "idle" /\ bcalls > 0

\* C14: BackupTo returns nil only when the session was opened, the copy step
\* was repeated until it reported no page left, so that every page is in the
\* destination, and the session was finished without error; a failure to get
\* the connection, to open the session, of a step or of the finish makes it
\* return an error; a destination that lacks pages is never returned as a
\* success.
C14_BackupResult ==
    /\ Returned =>
          /\ bres \in {"ok", "err"}
          /\ bres = "ok" <=> bfail = "none"
          /\ bres = "ok" => (sess = "finished" /\ ~more /\ copied = total)
          /\ (sess # "none" /\ copied < total) => bres = "err"
          /\ bfail = "conn" => (sess = "none" /\ copied = 0)
          /\ bfail = "open" => (sess = "none" /\ copied = 0)
    /\ bpc = "loop" => (more <=> copied < total)
    /\ (bpc = "exit" /\ bfail = "none") => (sess = "finished" /\ copied = total)

\* a backup of three pages has returned nil
C14_Witness ==
    /\ Returned
    /\ bres = "ok"
    /\ total = 3
    /\ copied = 3
    /\ bcalls = 1

\* a step failed on a destination that already held a page
C14_PartialWitness ==
    /\ Returned
    /\ bres = "err"
    /\ bfail = "step"
    /\ copied > 0
    /\ copied < total

\* C19 as stated: whenever BackupTo has returned, its connection has been
\* given back and every session that was opened has been finished.
C19_BackupReleased == bpc = "idle" => (held = 0 /\ unfinished = 0)

====
